---- MODULE Spec2Model ----
(***************************************************************************)
(* Model of src/app.py: the SIG-SEL evaluation dashboard.  The script is   *)
(* re-executed top to bottom on every operator interaction (a render       *)
(* pass).  A pass reads the cases (cached, ttl=60), renders the selector,  *)
(* reads the bids of the selected case, builds the ranking table, handles  *)
(* the execute button (one POST to the edge function) and renders the      *)
(* table and the winner metric.  The store and the edge function are       *)
(* external: their answers are drawn from bounded sets.                    *)
(***************************************************************************)
EXTENDS Integers, Sequences, FiniteSets, TLC

\* ---------------------------------------------------------------- bounds
NumCases == 2
MaxBids == 3
TickSeconds == 30
MaxPosts == 3

\* ------------------------------------------------------ program constants
CacheTtl == 60

Cases == 1..NumCases
\* estado_fase values of the external table; the first is the
\* pending-evaluation status the dashboard is meant for
PendingStatus == "EVALUACION"
Fases == {PendingStatus, "ADJUDICADO"}
\* puntaje_total values, in thousandths of a point
Scores == {80000, 94996, 95000}
StatusCodes == {200, 403}

\* ------------------------------------------------- inputs from the store
Codigo(id) == 100 + id

RECURSIVE ExpRows(_, _)
ExpRows(f, n) ==
  IF n = 0 THEN <<>>
  ELSE IF f[n] = "ausente" THEN ExpRows(f, n - 1)
  ELSE Append(ExpRows(f, n - 1),
              [id |-> n, codigo_proceso |-> Codigo(n), estado_fase |-> f[n]])

\* the possible contents of response.data for expedientes_contratacion
ExpResults == { ExpRows(f, NumCases) : f \in [Cases -> Fases \cup {"ausente"}] }

OfertaRows(id, totals) ==
  [i \in 1..Len(totals) |->
     [expediente_id |-> id, razon_social |-> i, puntaje_total |-> totals[i]]]

\* the possible contents of response.data for ofertas_recibidas of one case
BidResults(id) ==
  { OfertaRows(id, t) : t \in UNION { [1..n -> Scores] : n \in 0..MaxBids } }

\* answers of the edge function: a transport failure, or a status with a
\* body that is or is not valid JSON
Responses ==
  { [net |-> FALSE, status |-> 0, json |-> FALSE] } \cup
  { [net |-> TRUE, status |-> s, json |-> j] : s \in StatusCodes, j \in BOOLEAN }

\* tie orders of the sort (kind defaults to quicksort, which promises no
\* order among equal keys): a priority over row labels that is fixed for
\* the build, either input order (the insertion-sort path) or its reverse
TiePriorities ==
  { [i \in 1..MaxBids |-> i], [i \in 1..MaxBids |-> MaxBids + 1 - i] }

\* ------------------------------------------------------- data functions
FetchExpedientesNoError(ok, rows) ==
  IF ok THEN [df |-> rows, err |-> FALSE] ELSE [df |-> <<>>, err |-> FALSE]

\* fetch_expedientes: rows on success; empty frame plus st.error on failure
FetchExpedientesResult(ok, rows) ==
  IF ok THEN [df |-> rows, err |-> FALSE] ELSE [df |-> <<>>, err |-> TRUE]

\* fetch_ofertas: rows on success; empty frame plus st.error on failure
FetchOfertasResult(ok, rows) ==
  IF ok THEN [df |-> rows, err |-> FALSE] ELSE [df |-> <<>>, err |-> TRUE]

\* call_edge_function: <<success, result>>
CallEdgeFunction(resp) ==
  IF ~resp.net THEN <<FALSE, [raw |-> FALSE, text |-> "ConnectionError"]>>
  ELSE IF ~resp.json THEN <<FALSE, [raw |-> FALSE, text |-> "JSONDecodeError"]>>
  ELSE IF resp.status = 200 THEN <<TRUE, [raw |-> TRUE, text |-> "body200"]>>
  ELSE <<FALSE, [raw |-> TRUE, text |-> "bodyNot200"]>>

\* @st.cache_data(ttl=60): an entry is served while younger than the ttl
NoCache == [valid |-> FALSE, df |-> <<>>, err |-> FALSE, age |-> 0]
CacheHit(c) == c.valid /\ c.age < CacheTtl

\* ---------------------------------------------------------------- sidebar
\* expediente_options = {row['codigo_proceso']: row['id'] ...}; its keys
ExpedienteOptions(df) == [i \in 1..Len(df) |-> df[i].codigo_proceso]

InOptions(code, opts) == \E i \in 1..Len(opts) : opts[i] = code

\* st.selectbox(options, index=0): the widget value if still offered,
\* else the first option
Selectbox(value, opts) == IF InOptions(value, opts) THEN value ELSE opts[1]

\* expediente_options[selected_code]: the last row with that code wins
OptionId(df, code) ==
  LET last == CHOOSE i \in 1..Len(df) :
                /\ df[i].codigo_proceso = code
                /\ \A j \in 1..Len(df) : df[j].codigo_proceso = code => j <= i
  IN df[last].id

\* ---------------------------------------------------------------- ranking
\* row r goes before row e in a descending sort; equal keys are ordered by
\* the sort's tie priority
Before(r, e, prio) ==
  \/ r.puntaje_total > e.puntaje_total
  \/ r.puntaje_total = e.puntaje_total /\ prio[r.idx] < prio[e.idx]

RECURSIVE InsertRow(_, _, _)
InsertRow(r, s, prio) ==
  IF s = <<>> THEN <<r>>
  ELSE IF Before(r, Head(s), prio) THEN <<r>> \o s
  ELSE <<Head(s)>> \o InsertRow(r, Tail(s), prio)

RECURSIVE SortFrom(_, _, _)
SortFrom(rows, k, prio) ==
  IF k = 0 THEN <<>> ELSE InsertRow(rows[k], SortFrom(rows, k - 1, prio), prio)

RECURSIVE ReverseSeq(_)
ReverseSeq(s) == IF s = <<>> THEN <<>> ELSE Append(ReverseSeq(Tail(s)), Head(s))

SortValuesAscending(rows, prio) == ReverseSeq(SortFrom(rows, Len(rows), prio))

SortValuesNotAssigned(rows, prio) == rows

\* display_df.sort_values(by='puntaje_total', ascending=False)
SortValues(rows, prio) == SortFrom(rows, Len(rows), prio)

RankMin(sorted, i) ==
  1 + Cardinality({ j \in 1..Len(sorted) :
                      sorted[j].puntaje_total > sorted[i].puntaje_total })

\* display_df['ranking'] = range(1, len(display_df) + 1)
Ranking(sorted, i) == i

\* Series.round(2) on thousandths: nearest hundredth, halves to even
Round2(t) ==
  LET q == t \div 10
      r == t % 10
  IN IF r > 5 \/ (r = 5 /\ q % 2 = 1) THEN (q + 1) * 10 ELSE q * 10

\* ofertas_df[columnas_ranking].copy(): the frame keeps its index labels
Projected(df) ==
  [i \in 1..Len(df) |->
     [idx |-> i, razon_social |-> df[i].razon_social,
      puntaje_total |-> df[i].puntaje_total]]

\* lines 124-135: project, sort, rank, round
DisplayDf(df, prio) ==
  LET sorted == SortValues(Projected(df), prio)
  IN [i \in 1..Len(sorted) |->
        [idx |-> sorted[i].idx, ranking |-> Ranking(sorted, i),
         razon_social |-> sorted[i].razon_social,
         puntaje_total |-> Round2(sorted[i].puntaje_total)]]

\* ganador = display_df.iloc[0]; the metric shows its name and total
Ganador(ddf) ==
  IF ddf = <<>> THEN <<>>
  ELSE <<[razon_social |-> ddf[1].razon_social,
          puntaje_total |-> ddf[1].puntaje_total]>>

\* ----------------------------------------------------------- guards
OfertasGuardMissing(df) == FALSE

\* if ofertas_df.empty: st.warning(...); st.stop()
OfertasGuardStops(df) == df = <<>>

CacheAfterCallUngated(success, c) == NoCache

\* st.cache_data.clear() sits in the success branch only
CacheAfterCall(success, c) == IF success THEN NoCache ELSE c

HandlerContinuesNoRerun(success) == TRUE

\* st.rerun() in the success branch abandons the pass; the failure branch
\* falls through to the table
HandlerContinues(success) == ~success

ButtonStickyOnRerun(was) == was

\* st.button is a trigger: TRUE only in the pass its click started
ButtonValueOnRerun(was) == FALSE

\* ------------------------------------------------------------------ state
VARIABLES
  pc,              \* position of the script: idle, sidebar, main, button
  cache,           \* st.cache_data entry of fetch_expedientes
  tiePrio,         \* tie order of the build's sort, fixed for the process
  interaction,     \* what started the current pass: rerun, select, click
  clicked,         \* value st.button returns in the current pass
  selected_code,   \* widget state of the selectbox (0: never set)
  selected_id,
  current_fase,    \* current_expediente['estado_fase']
  expedientes_df,
  ofertas_df,
  display_df,
  view,            \* what the current pass has rendered so far
  posts,           \* POSTs issued since the last operator interaction
  postBody,        \* expediente_id of this interaction's POST payload
  postFase,        \* estado_fase of the case that POST named
  response,        \* the edge function's answer to that POST
  lastCall,        \* outcome of the trigger call of this interaction
  expFailed,       \* the cases read was issued in this pass and raised
  expReadIssued,   \* the cases read was issued in this pass
  prevExpFailed,   \* expFailed of the previous pass
  ofRead,          \* the bids read was issued in this pass
  ofFailed,        \* the bids read was issued in this pass and raised
  stale,           \* ofertas_df was read before the last successful trigger
  fault            \* an uncaught exception ended a pass

vars == <<pc, cache, tiePrio, interaction, clicked, selected_code, selected_id,
          current_fase, expedientes_df, ofertas_df, display_df, view, posts,
          postBody, postFase, response, lastCall, expFailed, expReadIssued, prevExpFailed, ofRead, ofFailed,
          stale, fault>>

EmptyView ==
  [errExp |-> FALSE, warnNoExp |-> FALSE, options |-> <<>>,
   errOf |-> FALSE, warnNoOf |-> FALSE, button |-> FALSE,
   success |-> FALSE, errorPanel |-> <<>>,
   tableShown |-> FALSE, table |-> <<>>, tableStale |-> FALSE, metric |-> <<>>]

NoResponse == [net |-> FALSE, status |-> 0, json |-> FALSE]

Init ==
  /\ pc = "idle"
  /\ cache = NoCache
  /\ tiePrio \in TiePriorities
  /\ interaction = "none"
  /\ clicked = FALSE
  /\ selected_code = 0
  /\ selected_id = 0
  /\ current_fase = ""
  /\ expedientes_df = <<>>
  /\ ofertas_df = <<>>
  /\ display_df = <<>>
  /\ view = EmptyView
  /\ posts = 0
  /\ postBody = 0
  /\ postFase = ""
  /\ response = NoResponse
  /\ lastCall = "none"
  /\ expFailed = FALSE
  /\ expReadIssued = FALSE
  /\ prevExpFailed = FALSE
  /\ ofRead = FALSE
  /\ ofFailed = FALSE
  /\ stale = FALSE
  /\ fault = FALSE

\* ------------------------------------------------- operator interactions
\* a run of the script starts with fresh script variables
ScriptStart ==
  /\ expedientes_df' = <<>>
  /\ selected_id' = 0
  /\ current_fase' = ""
  /\ ofertas_df' = <<>>
  /\ display_df' = <<>>
  /\ stale' = FALSE
  /\ expFailed' = FALSE
  /\ expReadIssued' = FALSE
  /\ ofRead' = FALSE
  /\ ofFailed' = FALSE

\* every interaction re-executes the script from the top
StartPass(kind, code) ==
  /\ pc = "idle"
  /\ ~fault
  /\ pc' = "sidebar"
  /\ interaction' = kind
  /\ clicked' = (kind = "click")
  /\ selected_code' = IF kind = "select" THEN code ELSE selected_code
  /\ view' = EmptyView
  /\ posts' = 0
  /\ prevExpFailed' = expFailed
  /\ postBody' = 0
  /\ postFase' = ""
  /\ response' = NoResponse
  /\ lastCall' = "none"
  /\ ScriptStart
  /\ UNCHANGED <<cache, tiePrio, fault>>

\* page load, browser refresh or the Rerun menu entry
Rerun == StartPass("rerun", 0)

\* the operator picks one of the codes the selectbox offers
Select == \E i \in 1..Len(view.options) : StartPass("select", view.options[i])

\* the operator clicks the execute button the last pass rendered
Click == view.button /\ StartPass("click", 0)

\* time passes; the cache entry ages
Tick ==
  /\ cache.valid
  /\ cache.age < CacheTtl
  /\ cache' = [cache EXCEPT !.age = cache.age + TickSeconds]
  /\ UNCHANGED <<pc, tiePrio, interaction, clicked, selected_code, selected_id,
                 current_fase, expedientes_df, ofertas_df, display_df, view,
                 posts, postBody, postFase, response, lastCall, expFailed,
                 expReadIssued, prevExpFailed, ofRead, ofFailed, stale, fault>>

\* ------------------------------------------------------------ lines 86-108
\* the sidebar, given the frame and whether st.error was (re)played
Sidebar(res) ==
  /\ expedientes_df' = res.df
  /\ IF res.df = <<>>
     THEN /\ view' = [view EXCEPT !.errExp = res.err, !.warnNoExp = TRUE]
          /\ pc' = "idle"
          /\ UNCHANGED <<selected_code, selected_id, current_fase>>
     ELSE LET opts == ExpedienteOptions(res.df)
              code == Selectbox(selected_code, opts)
              id == OptionId(res.df, code)
              cur == CHOOSE i \in 1..Len(res.df) :
                       /\ res.df[i].id = id
                       /\ \A j \in 1..Len(res.df) : res.df[j].id = id => i <= j
          IN /\ view' = [view EXCEPT !.errExp = res.err, !.options = opts]
             /\ selected_code' = code
             /\ selected_id' = id
             /\ current_fase' = res.df[cur].estado_fase
             /\ pc' = "main"
  /\ UNCHANGED <<tiePrio, interaction, clicked, ofertas_df, display_df, posts,
                 postBody, postFase, response, lastCall, prevExpFailed, ofRead,
                 ofFailed, stale, fault>>

\* fetch_expedientes() served from the cache: the stored frame, and the
\* stored st.error replayed
FetchExpedientesCached ==
  /\ pc = "sidebar"
  /\ CacheHit(cache)
  /\ UNCHANGED <<cache, expFailed, expReadIssued>>
  /\ Sidebar([df |-> cache.df, err |-> cache.err])

\* fetch_expedientes() executed: the query runs and its result is stored
FetchExpedientesRead ==
  /\ pc = "sidebar"
  /\ ~CacheHit(cache)
  /\ \E ok \in BOOLEAN, rows \in ExpResults :
       LET res == FetchExpedientesResult(ok, rows)
       IN /\ cache' = [valid |-> TRUE, df |-> res.df, err |-> res.err, age |-> 0]
          /\ expFailed' = ~ok
          /\ expReadIssued' = TRUE
          /\ Sidebar(res)

\* ----------------------------------------------------------- lines 112-135
FetchOfertas ==
  /\ pc = "main"
  /\ \E ok \in BOOLEAN, rows \in BidResults(selected_id) :
       LET res == FetchOfertasResult(ok, rows)
       IN /\ ofertas_df' = res.df
          /\ ofRead' = TRUE
          /\ ofFailed' = ~ok
          /\ stale' = FALSE
          /\ IF OfertasGuardStops(res.df)
             THEN /\ view' = [view EXCEPT !.errOf = res.err, !.warnNoOf = TRUE]
                  /\ display_df' = <<>>
                  /\ pc' = "idle"
             ELSE /\ view' = [view EXCEPT !.errOf = res.err]
                  /\ display_df' = DisplayDf(res.df, tiePrio)
                  /\ pc' = "button"
  /\ UNCHANGED <<cache, tiePrio, interaction, clicked, selected_code,
                 selected_id, current_fase, expedientes_df, posts, postBody,
                 postFase, response, lastCall, expFailed, expReadIssued,
                 prevExpFailed, fault>>

\* ----------------------------------------------------------- lines 156-208
\* st.dataframe(display_df...), ganador = display_df.iloc[0], st.metric
Render(v, st) ==
  /\ view' = [v EXCEPT !.button = TRUE, !.tableShown = TRUE,
                       !.table = display_df, !.tableStale = st,
                       !.metric = Ganador(display_df)]
  /\ fault' = (display_df = <<>>)
  /\ pc' = "idle"

\* the button was not clicked: the handler is skipped
ButtonIdle ==
  /\ pc = "button"
  /\ ~clicked
  /\ Render(view, stale)
  /\ UNCHANGED <<cache, tiePrio, interaction, clicked, selected_code,
                 selected_id, current_fase, expedientes_df, ofertas_df,
                 display_df, posts, postBody, postFase, response, lastCall,
                 expFailed, expReadIssued, prevExpFailed, ofRead, ofFailed,
                 stale>>

\* ----------------------------------------------------------- lines 141-154
\* the button was clicked: one POST, then clear + rerun, or the error panel
ButtonClicked ==
  /\ pc = "button"
  /\ clicked
  /\ \E resp \in Responses :
       LET r == CallEdgeFunction(resp)
           success == r[1]
           result == r[2]
       IN /\ posts' = posts + 1
          /\ postBody' = selected_id
          /\ postFase' = current_fase
          /\ response' = resp
          /\ lastCall' = IF success THEN "ok" ELSE "failed"
          /\ cache' = CacheAfterCall(success, cache)
          /\ IF HandlerContinues(success)
             THEN /\ Render([view EXCEPT
                               !.success = success,
                               !.errorPanel = IF success THEN <<>> ELSE <<result>>],
                            stale \/ success)
                  /\ stale' = (stale \/ success)
                  /\ UNCHANGED <<clicked, expFailed, expReadIssued,
                                 prevExpFailed, ofRead, ofFailed, selected_id,
                                 current_fase, expedientes_df, ofertas_df,
                                 display_df>>
             ELSE /\ pc' = "sidebar"
                  /\ view' = EmptyView
                  /\ clicked' = ButtonValueOnRerun(clicked)
                  /\ prevExpFailed' = expFailed
                  /\ ScriptStart
                  /\ UNCHANGED fault
  /\ posts < MaxPosts
  /\ UNCHANGED <<tiePrio, interaction, selected_code>>

Next ==
  \/ Rerun
  \/ Select
  \/ Click
  \/ Tick
  \/ FetchExpedientesCached
  \/ FetchExpedientesRead
  \/ FetchOfertas
  \/ ButtonIdle
  \/ ButtonClicked

Spec == Init /\ [][Next]_vars

TypeOK ==
  /\ pc \in {"idle", "sidebar", "main", "button"}
  /\ posts \in 0..1
  /\ Len(ofertas_df) <= MaxBids
  /\ Len(expedientes_df) <= NumCases

\* ------------------------------------------------------------ properties
\* rank the rendered table gives the row with index label i
RankOf(i) == (CHOOSE k \in 1..Len(view.table) : view.table[k].idx = i)

Totals == [i \in 1..Len(ofertas_df) |-> ofertas_df[i].puntaje_total]

\* C1: in every rendered table the row ranked 1 is the first row, its total
\* is at least the total of every row read, and the winner metric shows
\* that row's bidder and (rounded) total.
C1_RankOneIsMax ==
  view.tableShown =>
    /\ view.table # <<>>
    /\ view.table[1].ranking = 1
    /\ \A k \in 1..Len(view.table) :
         view.table[k].ranking = 1 =>
           /\ \A j \in 1..Len(ofertas_df) :
                /\ Totals[view.table[k].idx] >= Totals[j]
                /\ view.table[k].puntaje_total >= Round2(Totals[j])
           /\ view.metric =
                <<[razon_social |-> ofertas_df[view.table[k].idx].razon_social,
                   puntaje_total |-> Round2(Totals[view.table[k].idx])]>>

\* a table whose winner is not the first row read
C1_Witness ==
  /\ view.tableShown
  /\ Len(ofertas_df) >= 2
  /\ Totals[1] < Totals[2]
  /\ view.metric # <<>>

\* C2: the ranks of a rendered table of n rows are exactly 1..n, each used
\* once, ties included.
C2_RanksContiguous ==
  view.tableShown =>
    /\ Len(view.table) = Len(ofertas_df)
    /\ \A k \in 1..Len(view.table) : view.table[k].ranking \in 1..Len(view.table)
    /\ \A r \in 1..Len(view.table) :
         Cardinality({ k \in 1..Len(view.table) : view.table[k].ranking = r }) = 1

\* a rendered table of three rows, two of them with equal totals
C2_Witness ==
  /\ view.tableShown
  /\ Len(ofertas_df) = 3
  /\ \E i, j \in 1..3 : i # j /\ Totals[i] = Totals[j]

\* C3: a step that issues the POST and gets a failure (no connection,
\* non-200, body not JSON) leaves the cache as it was and ends the pass with
\* the error panel showing the result: the response body when it parsed, the
\* exception text otherwise.
C3_FailureKeepsCache ==
  [][ (posts' = posts + 1 /\ lastCall' = "failed") =>
        /\ cache' = cache
        /\ pc' = "idle"
        /\ ~view'.success
        /\ Len(view'.errorPanel) = 1
        /\ view'.errorPanel[1].raw = (response'.net /\ response'.json)
        /\ ~(response'.net /\ response'.json /\ response'.status = 200) ]_vars

\* a 403 with a JSON body: panel with the raw body, cache entry still there
C3_Witness ==
  /\ lastCall = "failed"
  /\ response.net /\ response.json /\ response.status = 403
  /\ view.errorPanel # <<>>
  /\ view.errorPanel[1].raw
  /\ CacheHit(cache)

\* C4: no rendered table is built from rows read before a successful
\* trigger; when a table is rendered after a successful trigger, the cache
\* was cleared and both reads were issued again in the pass that rendered it.
C4_FreshAfterSuccess ==
  /\ view.tableShown => ~view.tableStale
  /\ (lastCall = "ok" /\ view.tableShown) => (expReadIssued /\ ofRead /\ ~stale)
  /\ (lastCall = "ok" /\ pc = "sidebar") => (cache = NoCache /\ view = EmptyView)

\* a table rendered by the rerun that follows a successful trigger
C4_Witness == lastCall = "ok" /\ view.tableShown /\ posts = 1

\* C5: a bid read that returns zero rows ends the pass at the "no ofertas"
\* warning: no ranking, no table, no button, no winner metric, no fault.
C5_EmptyBidsHalt ==
  (ofRead /\ ofertas_df = <<>>) =>
    /\ pc = "idle"
    /\ view.warnNoOf
    /\ display_df = <<>>
    /\ ~view.tableShown
    /\ ~view.button
    /\ view.metric = <<>>
    /\ ~fault

\* the read succeeded and returned no rows
C5_Witness == ofRead /\ ~ofFailed /\ ofertas_df = <<>> /\ view.warnNoOf

\* C6: a read that raises gives an empty frame and a visible error, and the
\* pass ends at the matching "nothing to show" warning without a fault; a
\* cached failure is shown again with its error.
C6_ReadFailureDegrades ==
  /\ ~fault
  /\ expFailed =>
       /\ expedientes_df = <<>>
       /\ view.errExp /\ view.warnNoExp
       /\ pc = "idle" /\ ~view.tableShown
  /\ (cache.valid /\ cache.df = <<>> /\ cache.err /\ view.warnNoExp) => view.errExp
  /\ ofFailed =>
       /\ ofertas_df = <<>>
       /\ view.errOf /\ view.warnNoOf
       /\ pc = "idle" /\ ~view.tableShown

\* the cases read raised in this pass
C6_Witness == expFailed /\ view.errExp /\ view.warnNoExp /\ pc = "idle"

\* C7 (as claimed): every case offered by the selector, and every case sent
\* to the trigger, is in the pending-evaluation phase.
C7_OnlyPendingOffered ==
  /\ view.options # <<>> =>
       \A i \in 1..Len(expedientes_df) :
         expedientes_df[i].estado_fase = PendingStatus
  /\ posts > 0 => postFase = PendingStatus

\* C8 (as claimed): the pass after a pass whose cases read failed issues the
\* cases read again.
C8_FailedReadReissued ==
  (prevExpFailed /\ pc # "sidebar") => expReadIssued

\* C9 (as claimed): when a pass started by a click has ended, exactly one
\* POST was issued; a pass started otherwise issued none.
C9_ExactlyOnePerClick ==
  pc = "idle" => posts = (IF interaction = "click" THEN 1 ELSE 0)

\* C9 (amended): an interaction issues at most one POST, and none unless it
\* is a click; a click whose pass ended without a POST ended at one of the
\* two halts before the button; a POST carries the selected case identifier.
C9_AtMostOnePerClick ==
  /\ posts <= 1
  /\ interaction # "click" => posts = 0
  /\ (pc = "idle" /\ interaction = "click" /\ posts = 0) =>
       (view.warnNoExp \/ view.warnNoOf)
  /\ (pc = "idle" /\ view.button /\ interaction = "click") => posts = 1
  /\ (lastCall = "none") <=> (posts = 0)
  /\ (lastCall = "failed") => postBody = selected_id
  /\ posts > 0 => postBody \in Cases

\* a failed call: one POST, not repeated
C9_Witness ==
  pc = "idle" /\ interaction = "click" /\ posts = 1 /\ lastCall = "failed"

\* C10: the ranks of a rendered table are fixed by the rows read and their
\* order: a higher total ranks first, equal totals rank by the sort's fixed
\* tie order; for totals 80, 95, 95 the winner is the second or third bid
\* and the first bid is ranked last.
C10_RankDeterminedByInput ==
  view.tableShown =>
    /\ \A i, j \in 1..Len(ofertas_df) :
         i # j =>
           (RankOf(i) < RankOf(j) <=>
              \/ Totals[i] > Totals[j]
              \/ Totals[i] = Totals[j] /\ tiePrio[i] < tiePrio[j])
    /\ Totals = <<80000, 95000, 95000>> =>
         /\ view.metric[1].razon_social \in {2, 3}
         /\ Round2(95000) = view.metric[1].puntaje_total
         /\ RankOf(1) = 3

\* the scenario A=80, B=95, C=95 rendered
C10_Witness == view.tableShown /\ Totals = <<80000, 95000, 95000>>

====
